---- MODULE Spec2Model ----
(***************************************************************************)
(* A model of the audio segmentation pipeline of                           *)
(* app/utils/audacity_handler.py (class AudioProcessor) as driven by       *)
(* app/main.py (upload_file).                                              *)
(*                                                                         *)
(* Text (file names, the detector's diagnostic stream) is a sequence of    *)
(* one-character strings, so that str.startswith, re.match and re.findall  *)
(* are computed character by character.  Times are integers counting       *)
(* tenths of a second (TimeScale units per second).                        *)
(***************************************************************************)
EXTENDS Integers, Sequences, FiniteSets, TLC

\* ------------------------------------------------------------------ bounds
\* Worker threads/processes serving uploads at the same time.
NumProcs == 2
\* Total number of process_audio runs started in one behaviour.
MaxRuns == 2
\* Number of distinct values a truncated uuid4 can take in the model.
NumIds == 2
\* Longest detector event sequence drawn for the parser.
MaxEvents == 3

\* ------------------------------------------------------------- characters
DigitChars == <<"0", "1", "2", "3", "4", "5", "6", "7", "8", "9">>

IsDigit(c) == \E i \in 1..10 : DigitChars[i] = c

DigitValue(c) == (CHOOSE i \in 1..10 : DigitChars[i] = c) - 1

\* str(n) for a natural number n.
RECURSIVE Str(_)
Str(n) == IF n < 10 THEN <<DigitChars[n + 1]>>
          ELSE Str(n \div 10) \o <<DigitChars[(n % 10) + 1]>>

\* int(s) for a non-empty sequence of decimal digits.
RECURSIVE ToInt(_)
ToInt(s) == IF Len(s) = 0 THEN 0
          ELSE ToInt(SubSeq(s, 1, Len(s) - 1)) * 10 + DigitValue(s[Len(s)])

\* str.startswith
StartsWith(s, prefix) ==
    /\ Len(s) >= Len(prefix)
    /\ SubSeq(s, 1, Len(prefix)) = prefix

\* str.endswith
EndsWith(s, suffix) ==
    /\ Len(s) >= Len(suffix)
    /\ SubSeq(s, Len(s) - Len(suffix) + 1, Len(s)) = suffix

\* The length of the longest run of digits of s that starts at position i
\* (the greedy match of \d+ there; 0 when there is none).
RECURSIVE DigitRun(_, _)
DigitRun(s, i) == IF i <= Len(s) /\ IsDigit(s[i]) THEN 1 + DigitRun(s, i + 1)
                  ELSE 0

\* Seconds are counted in units of 1/TimeScale.
TimeScale == 10

\* float(s) for s of the form digits "." digits, in units of 1/TimeScale
\* (fraction digits beyond the resolution are truncated).
RECURSIVE FracValue(_, _)
FracValue(s, unit) ==
    IF Len(s) = 0 \/ unit = 0 THEN 0
    ELSE DigitValue(s[1]) * unit + FracValue(Tail(s), unit \div 10)

Float(s) ==
    LET n == DigitRun(s, 1)
    IN  ToInt(SubSeq(s, 1, n)) * TimeScale
          + FracValue(SubSeq(s, n + 2, Len(s)), TimeScale \div 10)

\* ---------------------------------------------------- parse_silence_points
SilenceStartLabel ==
    <<"s", "i", "l", "e", "n", "c", "e", "_", "s", "t", "a", "r", "t", ":", " ">>

SilenceEndLabel ==
    <<"s", "i", "l", "e", "n", "c", "e", "_", "e", "n", "d", ":", " ">>

\* The length of the match of  label(\d+\.\d+)  at position i of text, the
\* label included; 0 when the pattern does not match there.
MatchLen(label, text, i) ==
    LET j == i + Len(label)
        a == DigitRun(text, j)
        b == DigitRun(text, j + a + 1)
    IN  IF /\ j - 1 <= Len(text)
           /\ SubSeq(text, i, j - 1) = label
           /\ a > 0
           /\ j + a <= Len(text)
           /\ text[j + a] = "."
           /\ b > 0
        THEN Len(label) + a + 1 + b
        ELSE 0

\* re.findall(label + r'(\d+\.\d+)', text) scanning from position i: the
\* captured groups of the non-overlapping matches, left to right.  The scan
\* moves to the leftmost position at or after i where the pattern matches
\* and resumes behind that match.
RECURSIVE FindAll(_, _, _)
FindAll(label, text, i) ==
    LET hits == { k \in i..Len(text) : MatchLen(label, text, k) > 0 }
    IN  IF hits = {} THEN <<>>
        ELSE LET k == CHOOSE h \in hits : \A g \in hits : h <= g
                 n == MatchLen(label, text, k)
             IN  <<SubSeq(text, k + Len(label), k + n - 1)>>
                   \o FindAll(label, text, k + n)

Min(a, b) == IF a <= b THEN a ELSE b

\* A pairing that is off by one: the i-th onset with the (i+1)-th resumption.
ZipPointsShifted(starts, ends) ==
    [i \in 1..Min(Len(starts), Len(ends) - 1) |->
        [start |-> Float(starts[i]), end |-> Float(ends[i + 1])]]

\* zip(start_matches, end_matches) with the float conversions of the loop.
ZipPoints(starts, ends) ==
    [i \in 1..Min(Len(starts), Len(ends)) |->
        [start |-> Float(starts[i]), end |-> Float(ends[i])]]

parse_silence_points(silence_output) ==
    ZipPoints(FindAll(SilenceStartLabel, silence_output, 1),
              FindAll(SilenceEndLabel, silence_output, 1))

\* ------------------------------------------------- the detector's output
\* What the silencedetect filter (noise=-37dB:d=0.5) observed: an event is an
\* onset or a resumption at time t, printed either with a fractional part
\* ("fixed": 1.0) or in the shortest form ("general": 1, as %g prints a
\* whole number of seconds).
EventKinds == {"start", "end"}

FormatTs(t, fmt) ==
    IF fmt = "general" /\ t % TimeScale = 0 THEN Str(t \div TimeScale)
    ELSE Str(t \div TimeScale) \o <<".">> \o Str(t % TimeScale)

DurationLabel ==
    <<" ", "|", " ", "s", "i", "l", "e", "n", "c", "e", "_", "d", "u", "r", "a", "t", "i", "o", "n", ":", " ">>

Newline == <<"\n">>

\* The diagnostic line of one event; a resumption line also reports the
\* duration since the onset before it.
RenderLine(e, lastStart) ==
    IF e.kind = "start"
    THEN SilenceStartLabel \o FormatTs(e.t, e.fmt) \o Newline
    ELSE SilenceEndLabel \o FormatTs(e.t, e.fmt) \o DurationLabel
           \o FormatTs(IF e.t >= lastStart THEN e.t - lastStart ELSE 0, e.fmt)
           \o Newline

RECURSIVE RenderFrom(_, _, _)
RenderFrom(evs, i, lastStart) ==
    IF i > Len(evs) THEN <<>>
    ELSE RenderLine(evs[i], lastStart)
           \o RenderFrom(evs, i + 1,
                         IF evs[i].kind = "start" THEN evs[i].t ELSE lastStart)

\* process.stderr of the silence detection call.
Render(evs) == RenderFrom(evs, 1, 0)

Ev(kind, t, fmt) == [kind |-> kind, t |-> t, fmt |-> fmt]

\* The detector outputs the pipeline is run on.
DetectorOutputs ==
    { <<>>,
      <<Ev("start", 10, "fixed"), Ev("end", 35, "fixed"),
        Ev("start", 100, "fixed")>>,
      <<Ev("start", 3, "fixed"), Ev("end", 20, "fixed"),
        Ev("start", 35, "fixed"), Ev("end", 50, "fixed")>> }

\* The event sequences the parser is checked on.
ParseTimes == {10, 35, 100}

ParseEvents ==
    { e \in [kind : EventKinds, t : ParseTimes, fmt : {"fixed", "general"}] :
        e.fmt = "general" => e.t % TimeScale = 0 }

ParseInputs == UNION { [1..n -> ParseEvents] : n \in 0..MaxEvents }

\* ------------------------------------------------------------- file names
HexChars == <<"a", "b", "c", "d", "e", "f">>

\* str(uuid.uuid4())[:8], shortened to one hexadecimal character.
Ids == { <<HexChars[i]>> : i \in 1..NumIds }

\* str.zfill(width)
RECURSIVE ZFill(_, _)
ZFill(s, width) == IF Len(s) >= width THEN s ELSE ZFill(<<"0">> \o s, width)

ConvertedPrefix == <<"c", "o", "n", "v", "e", "r", "t", "e", "d", "_">>

WavSuffix == <<".", "w", "a", "v">>

SegmentsPrefix == <<"s", "e", "g", "m", "e", "n", "t", "s", "_">>

SegmentsInfix == <<"_", "s", "e", "g", "m", "e", "n", "t", "s", "_">>

UnderscoreSegments == <<"_", "s", "e", "g", "m", "e", "n", "t", "s">>

SegmentPrefix == <<"s", "e", "g", "m", "e", "n", "t", "_">>

\* f'converted_{unique_id}.wav'
ConvertedName(unique_id) == ConvertedPrefix \o unique_id \o WavSuffix

\* f'{str(next_number).zfill(2)}_segments_{str(uuid.uuid4())[:8]}'
OutputDirName(next_number, unique_id) ==
    ZFill(Str(next_number), 2) \o SegmentsInfix \o unique_id

\* f'segment_{n:03d}.wav'
SegmentName(n) == SegmentPrefix \o ZFill(Str(n), 3) \o WavSuffix

\* ------------------------------------------------------------------ state
Procs == 1..NumProcs

\* Durations, in seconds, of the uploaded recordings.
Durations == {5, 30}

\* '-segment_time', '10'
SegmentTime == 10

\* point['start'] - 1 and point['end'] + 1: one second of padding.
PadSeconds == 1

NoName == <<>>

NoError == "none"

StageOrder == <<"normalize", "detect", "parse", "split">>

VARIABLES
    fs,               \* os.listdir of the base directory <upload>/output
    segfiles,         \* <<directory, file>>: the files inside run directories
    allocs,           \* the run directories made so far, in order of creation
    runs,             \* process_audio runs started so far
    pc,               \* where each worker is in process_audio
    input_duration,   \* seconds of audio the segment muxer found in wav_file
    wav_file,         \* convert_to_wav's output_path (its file name)
    events,           \* what the detector observed in wav_file
    silence_output,   \* detect_silence's return value
    silence_points,   \* parse_silence_points's return value
    listing,          \* split_audio: os.listdir(base_output_dir) as read
    next_number,      \* split_audio: next_number
    output_dir,       \* split_audio: output_dir (its name)
    idx,              \* split_audio: the loop index i
    segments,         \* split_audio: the list filled by the loop
    result,           \* the list process_audio returned
    error,            \* the message of the exception process_audio raised
    stages,           \* the stages the run has entered, in order
    calls             \* the subprocess.run calls the run has made, in order

vars == <<fs, segfiles, allocs, runs, pc, input_duration, wav_file, events,
          silence_output, silence_points, listing, next_number, output_dir,
          idx, segments, result, error, stages, calls>>

Init ==
    /\ fs = {}
    /\ segfiles = {}
    /\ allocs = <<>>
    /\ runs = 0
    /\ pc = [p \in Procs |-> "idle"]
    /\ input_duration = [p \in Procs |-> 0]
    /\ wav_file = [p \in Procs |-> NoName]
    /\ events = [p \in Procs |-> <<>>]
    /\ silence_output = [p \in Procs |-> <<>>]
    /\ silence_points = [p \in Procs |-> <<>>]
    /\ listing = [p \in Procs |-> {}]
    /\ next_number = [p \in Procs |-> 0]
    /\ output_dir = [p \in Procs |-> NoName]
    /\ idx = [p \in Procs |-> 0]
    /\ segments = [p \in Procs |-> <<>>]
    /\ result = [p \in Procs |-> <<>>]
    /\ error = [p \in Procs |-> NoError]
    /\ stages = [p \in Procs |-> <<>>]
    /\ calls = [p \in Procs |-> <<>>]

\* One subprocess.run call: the command, its exit status, whether it wrote
\* its output, whether the output file it names exists once it has returned
\* (os.path.exists), and the arguments that vary: -segment_time in seconds,
\* -ss and -to in units of 1/TimeScale, and the output file name.  A call
\* that exits non-zero is taken to have written nothing.
Call(cmd, exit, created, exists, segment_time, ss, to, out) ==
    [cmd |-> cmd, exit |-> exit, created |-> created, exists |-> exists,
     segment_time |-> segment_time, ss |-> ss, to |-> to, out |-> out]

ExitCodes == {0, 1}

\* What a call can do: exit non-zero, or exit zero with or without its file.
Outcomes == { o \in [exit : ExitCodes, created : BOOLEAN] :
                o.exit # 0 => ~o.created }

\* The bound of max(0, ...) left out.
MaxUnclamped(a, b) == b

\* max(a, b)
Max(a, b) == IF a >= b THEN a ELSE b

\* subprocess.run(convert_command, ..., check=True) raises CalledProcessError.
ConvertRaises(exit) == exit # 0

\* The check of the output file left out.
OutputMissingNever(exists) == FALSE

\* if not os.path.exists(output_path): raise
OutputMissing(exists) == ~exists

\* The silence detection run without check=True.
DetectRaisesNever(exit) == FALSE

\* subprocess.run(silence_command, ..., check=True)
DetectRaises(exit) == exit # 0

\* subprocess.run(segment_command, check=True) of the fixed-length branch
SegmentRaises(exit) == exit # 0

\* The extraction run without check=True.
ExtractRaisesNever(exit) == FALSE

\* subprocess.run(segment_command, check=True) of the loop
ExtractRaises(exit) == exit # 0

\* The fallback also taken for a single interval.
UseFallbackShort(points) == Len(points) <= 1

\* if not silence_points
UseFallback(points) == Len(points) = 0

\* ----------------------------------------------------------- process_audio
\* upload_file: processor.process_audio(filepath)
StartProcess(p) ==
    /\ pc[p] = "idle"
    /\ runs < MaxRuns
    /\ runs' = runs + 1
    /\ pc' = [pc EXCEPT ![p] = "convert"]
    /\ UNCHANGED <<fs, segfiles, allocs, input_duration, wav_file, events, silence_output,
                   silence_points, listing, next_number, output_dir, idx,
                   segments, result, error, stages, calls>>

\* convert_to_wav
ConvertToWav(p) ==
    /\ pc[p] = "convert"
    /\ \E unique_id \in Ids, o \in Outcomes :
         LET output_filename == ConvertedName(unique_id)
             exit == o.exit
             created == o.created
             fs1 == IF created THEN fs \cup {output_filename} ELSE fs
         IN  /\ fs' = fs1
             /\ calls' = [calls EXCEPT ![p] =
                   Append(@, Call("convert", exit, created,
                                  output_filename \in fs1, 0, 0, 0,
                                  output_filename))]
             /\ IF ConvertRaises(exit)
                THEN /\ error' = [error EXCEPT ![p] = "Audio conversion failed"]
                     /\ pc' = [pc EXCEPT ![p] = "failed"]
                     /\ UNCHANGED wav_file
                ELSE IF OutputMissing(output_filename \in fs1)
                THEN /\ error' = [error EXCEPT ![p] =
                            "WAV conversion failed: Output file not created"]
                     /\ pc' = [pc EXCEPT ![p] = "failed"]
                     /\ UNCHANGED wav_file
                ELSE /\ wav_file' = [wav_file EXCEPT ![p] = output_filename]
                     /\ pc' = [pc EXCEPT ![p] = "detect"]
                     /\ UNCHANGED error
    /\ stages' = [stages EXCEPT ![p] = Append(@, "normalize")]
    /\ UNCHANGED <<segfiles, allocs, runs, input_duration, events,
                   silence_output, silence_points, listing, next_number,
                   output_dir, idx, segments, result>>

\* detect_silence
DetectSilence(p) ==
    /\ pc[p] = "detect"
    /\ \E exit \in ExitCodes, evs \in DetectorOutputs :
         /\ calls' = [calls EXCEPT ![p] =
               Append(@, Call("silencedetect", exit, FALSE, FALSE, 0, 0, 0,
                              NoName))]
         /\ IF DetectRaises(exit)
            THEN /\ error' = [error EXCEPT ![p] = "Silence detection failed"]
                 /\ pc' = [pc EXCEPT ![p] = "failed"]
                 /\ UNCHANGED <<events, silence_output>>
            ELSE /\ events' = [events EXCEPT ![p] = evs]
                 /\ silence_output' = [silence_output EXCEPT ![p] = Render(evs)]
                 /\ pc' = [pc EXCEPT ![p] = "parse"]
                 /\ UNCHANGED error
    /\ stages' = [stages EXCEPT ![p] = Append(@, "detect")]
    /\ UNCHANGED <<fs, segfiles, allocs, runs, input_duration, wav_file,
                   silence_points, listing, next_number, output_dir, idx,
                   segments, result>>

\* process_audio: silence_points = self.parse_silence_points(silence_output)
ParseSilencePoints(p) ==
    /\ pc[p] = "parse"
    /\ silence_points' = [silence_points EXCEPT ![p] =
           parse_silence_points(silence_output[p])]
    /\ stages' = [stages EXCEPT ![p] = Append(@, "parse")]
    /\ pc' = [pc EXCEPT ![p] = "split_list"]
    /\ UNCHANGED <<fs, segfiles, allocs, runs, input_duration, wav_file,
                   events, silence_output, listing, next_number, output_dir,
                   idx, segments, result, error, calls>>

\* ------------------------------------------------------------- split_audio
\* [f for f in os.listdir(base_output_dir) if f.startswith('segments_')]
ExistingFolders(entries) == { f \in entries : StartsWith(f, SegmentsPrefix) }

\* re.match(r'(\d+)_segments', folder): the text of group 1, or the empty
\* sequence when the pattern does not match at the start of folder.
ReMatchGroup(folder) ==
    LET a == DigitRun(folder, 1)
    IN  IF /\ a > 0
           /\ a + Len(UnderscoreSegments) <= Len(folder)
           /\ SubSeq(folder, a + 1, a + Len(UnderscoreSegments))
                = UnderscoreSegments
        THEN SubSeq(folder, 1, a)
        ELSE <<>>

\* existing_numbers
ExistingNumbers(folders) ==
    { ToInt(ReMatchGroup(folder)) :
        folder \in { f \in folders : ReMatchGroup(f) # <<>> } }

SetMax(S) == CHOOSE m \in S : \A x \in S : x <= m

\* The entries of the directory counted instead of the run numbers read.
NextNumberCounted(entries) == Cardinality(entries) + 1

\* max(existing_numbers, default=0) + 1
NextNumber(entries) ==
    SetMax(ExistingNumbers(ExistingFolders(entries)) \cup {0}) + 1

\* The number of files the segment muxer writes for d seconds of audio cut
\* every SegmentTime seconds; it numbers them from 0 (segment_%03d.wav).
SegmentCount(d) == (d + SegmentTime - 1) \div SegmentTime

\* The orders in which os.listdir may return the names in S.
Perms(S) ==
    { f \in [1..Cardinality(S) -> S] :
        \A i, j \in 1..Cardinality(S) : i # j => f[i] # f[j] }

\* split_audio up to next_number: the directory is listed and the next run
\* number is computed from the listing.
SplitListSiblings(p) ==
    /\ pc[p] = "split_list"
    /\ listing' = [listing EXCEPT ![p] = fs]
    /\ next_number' = [next_number EXCEPT ![p] = NextNumber(fs)]
    /\ stages' = [stages EXCEPT ![p] = Append(@, "split")]
    /\ pc' = [pc EXCEPT ![p] = "split_mkdir"]
    /\ UNCHANGED <<fs, segfiles, allocs, runs, input_duration, wav_file,
                   events, silence_output, silence_points, output_dir, idx,
                   segments, result, error, calls>>

\* split_audio: output_dir is named and os.makedirs(output_dir,
\* exist_ok=True) makes it; then the branch on silence_points is taken.
SplitMakeDir(p) ==
    /\ pc[p] = "split_mkdir"
    /\ \E unique_id \in Ids :
         LET dir == OutputDirName(next_number[p], unique_id)
         IN  /\ output_dir' = [output_dir EXCEPT ![p] = dir]
             /\ fs' = fs \cup {dir}
             /\ allocs' = Append(allocs,
                   [proc |-> p, number |-> next_number[p], dir |-> dir,
                    existed |-> dir \in fs])
    /\ idx' = [idx EXCEPT ![p] = 0]
    /\ segments' = [segments EXCEPT ![p] = <<>>]
    /\ pc' = [pc EXCEPT ![p] =
          IF UseFallback(silence_points[p]) THEN "split_fixed"
          ELSE "split_extract"]
    /\ UNCHANGED <<segfiles, runs, input_duration, wav_file, events,
                   silence_output, silence_points, listing, next_number,
                   result, error, stages, calls>>

\* split_audio, no silence points: one fixed-length segmentation call.
SplitFixed(p) ==
    /\ pc[p] = "split_fixed"
    /\ \E exit \in ExitCodes, d \in Durations :
         LET written == IF exit = 0 THEN SegmentCount(d) ELSE 0
         IN /\ input_duration' = [input_duration EXCEPT ![p] = d]
            /\ segfiles' = segfiles \cup
                  { <<output_dir[p], SegmentName(n)>> : n \in 0..(written - 1) }
            /\ calls' = [calls EXCEPT ![p] =
                  Append(@, Call("segment", exit, written > 0, written > 0,
                                 SegmentTime, 0, 0, NoName))]
            /\ IF SegmentRaises(exit)
               THEN /\ error' = [error EXCEPT ![p] = "Failed to split audio"]
                    /\ pc' = [pc EXCEPT ![p] = "failed"]
               ELSE /\ pc' = [pc EXCEPT ![p] = "split_return"]
                    /\ UNCHANGED error
    /\ UNCHANGED <<fs, allocs, runs, wav_file, events,
                   silence_output, silence_points, listing, next_number,
                   output_dir, idx, segments, result, stages>>

\* split_audio, one iteration of  for i, point in enumerate(silence_points)
SplitExtract(p) ==
    /\ pc[p] = "split_extract"
    /\ idx[p] < Len(silence_points[p])
    /\ \E o \in Outcomes :
         LET point == silence_points[p][idx[p] + 1]
             exit == o.exit
             created == o.created
             output_segment == SegmentName(idx[p] + 1)
             files == IF created
                      THEN segfiles \cup {<<output_dir[p], output_segment>>}
                      ELSE segfiles
         IN  /\ segfiles' = files
             /\ calls' = [calls EXCEPT ![p] =
                   Append(@, Call("extract", exit, created,
                                  <<output_dir[p], output_segment>> \in files,
                                  0,
                                  Max(0, point.start - PadSeconds * TimeScale),
                                  point.end + PadSeconds * TimeScale,
                                  output_segment))]
             /\ IF ExtractRaises(exit)
                THEN /\ error' = [error EXCEPT ![p] = "Failed to split audio"]
                     /\ pc' = [pc EXCEPT ![p] = "failed"]
                     /\ UNCHANGED <<idx, segments>>
                ELSE /\ segments' = [segments EXCEPT ![p] =
                           IF <<output_dir[p], output_segment>> \in files
                           THEN Append(@, output_segment) ELSE @]
                     /\ idx' = [idx EXCEPT ![p] = @ + 1]
                     /\ pc' = [pc EXCEPT ![p] =
                           IF idx[p] + 1 < Len(silence_points[p])
                           THEN "split_extract" ELSE "split_return"]
                     /\ UNCHANGED error
    /\ UNCHANGED <<fs, allocs, runs, input_duration, wav_file, events,
                   silence_output, silence_points, listing, next_number,
                   output_dir, result, stages>>

\* split_audio: return [f for f in os.listdir(output_dir)
\* if f.endswith('.wav')], which process_audio returns in turn.
SplitReturn(p) ==
    /\ pc[p] = "split_return"
    /\ \E order \in Perms({ f \in { sf[2] : sf \in { x \in segfiles :
                                  x[1] = output_dir[p] } } :
                            EndsWith(f, WavSuffix) }) :
         result' = [result EXCEPT ![p] = order]
    /\ pc' = [pc EXCEPT ![p] = "done"]
    /\ UNCHANGED <<fs, segfiles, allocs, runs, input_duration, wav_file,
                   events, silence_output, silence_points, listing,
                   next_number, output_dir, idx, segments, error, stages,
                   calls>>

\* upload_file renders the result or flashes the error; the worker is free
\* for the next upload.
Finish(p) ==
    /\ pc[p] \in {"done", "failed"}
    /\ pc' = [pc EXCEPT ![p] = "idle"]
    /\ input_duration' = [input_duration EXCEPT ![p] = 0]
    /\ wav_file' = [wav_file EXCEPT ![p] = NoName]
    /\ events' = [events EXCEPT ![p] = <<>>]
    /\ silence_output' = [silence_output EXCEPT ![p] = <<>>]
    /\ silence_points' = [silence_points EXCEPT ![p] = <<>>]
    /\ listing' = [listing EXCEPT ![p] = {}]
    /\ next_number' = [next_number EXCEPT ![p] = 0]
    /\ output_dir' = [output_dir EXCEPT ![p] = NoName]
    /\ idx' = [idx EXCEPT ![p] = 0]
    /\ segments' = [segments EXCEPT ![p] = <<>>]
    /\ result' = [result EXCEPT ![p] = <<>>]
    /\ error' = [error EXCEPT ![p] = NoError]
    /\ stages' = [stages EXCEPT ![p] = <<>>]
    /\ calls' = [calls EXCEPT ![p] = <<>>]
    /\ UNCHANGED <<fs, segfiles, allocs, runs>>

Step(p) ==
    \/ StartProcess(p)
    \/ ConvertToWav(p)
    \/ DetectSilence(p)
    \/ ParseSilencePoints(p)
    \/ SplitListSiblings(p)
    \/ SplitMakeDir(p)
    \/ SplitFixed(p)
    \/ SplitExtract(p)
    \/ SplitReturn(p)
    \/ Finish(p)

\* Uploads served by concurrent workers.
Next == \E p \in Procs : Step(p)

Spec == Init /\ [][Next]_vars

\* Uploads served one after the other by a single worker.
SeqNext == Step(1)

SeqSpec == Init /\ [][SeqNext]_vars

\* The parser run on its own: detect_silence has just returned the text of
\* some event sequence to worker 1.
ParseInit ==
    /\ fs = {ConvertedName(<<"a">>)}
    /\ segfiles = {}
    /\ allocs = <<>>
    /\ runs = 1
    /\ pc = [p \in Procs |-> IF p = 1 THEN "parse" ELSE "idle"]
    /\ input_duration = [p \in Procs |-> 0]
    /\ wav_file = [p \in Procs |->
          IF p = 1 THEN ConvertedName(<<"a">>) ELSE NoName]
    /\ \E evs \in ParseInputs :
         /\ events = [p \in Procs |-> IF p = 1 THEN evs ELSE <<>>]
         /\ silence_output = [p \in Procs |->
               IF p = 1 THEN Render(evs) ELSE <<>>]
    /\ silence_points = [p \in Procs |-> <<>>]
    /\ listing = [p \in Procs |-> {}]
    /\ next_number = [p \in Procs |-> 0]
    /\ output_dir = [p \in Procs |-> NoName]
    /\ idx = [p \in Procs |-> 0]
    /\ segments = [p \in Procs |-> <<>>]
    /\ result = [p \in Procs |-> <<>>]
    /\ error = [p \in Procs |-> NoError]
    /\ stages = [p \in Procs |->
          IF p = 1 THEN <<"normalize", "detect">> ELSE <<>>]
    /\ calls = [p \in Procs |->
          IF p = 1
          THEN <<Call("convert", 0, TRUE, TRUE, 0, 0, 0,
                      ConvertedName(<<"a">>)),
                 Call("silencedetect", 0, FALSE, FALSE, 0, 0, 0, NoName)>>
          ELSE <<>>]

ParseNext == \E p \in Procs : ParseSilencePoints(p)

ParseSpec == ParseInit /\ [][ParseNext]_vars

\* The two workers whose invocations run at the same time.
RacePair == {1, 2}

\* Two concurrent uploads followed up to the allocation of the output
\* directory: each worker's run through convert, detect, parse, the listing
\* of the base directory and the creation of the run directory.
AllocNext ==
    \E p \in RacePair :
        \/ StartProcess(p)
        \/ ConvertToWav(p)
        \/ DetectSilence(p)
        \/ ParseSilencePoints(p)
        \/ SplitListSiblings(p)
        \/ SplitMakeDir(p)

AllocSpec == Init /\ [][AllocNext]_vars

\* ------------------------------------------------------------------ claims
Range(f) == { f[i] : i \in DOMAIN f }

\* The worker's run has been through parse_silence_points.
Parsed(p) == "parse" \in Range(stages[p])

\* The event's timestamp is printed as digits "." digits.
HasFraction(e) == e.fmt = "fixed" \/ e.t % TimeScale # 0

\* The markers of one kind in the detector's text, in order of appearance:
\* the label followed by a floating-point timestamp.
Markers(evs, kind) ==
    SelectSeq(evs, LAMBDA e : e.kind = kind /\ HasFraction(e))

Alternating(evs) ==
    \A i \in 1..Len(evs) :
        evs[i].kind = IF i % 2 = 1 THEN "start" ELSE "end"

Increasing(evs) ==
    \A i \in 1..Len(evs) : \A j \in 1..Len(evs) :
        i < j => evs[i].t < evs[j].t

\* C9: for every detector output whose onset and resumption markers
\* alternate with increasing non-negative timestamps, whether printed with
\* or without a fractional part, every interval parse_silence_points yields
\* satisfies 0 <= start < end.
C9_IntervalsWellFormed ==
    \A p \in Procs :
        (Parsed(p) /\ Alternating(events[p]) /\ Increasing(events[p])) =>
            \A i \in 1..Len(silence_points[p]) :
                /\ 0 <= silence_points[p][i].start
                /\ silence_points[p][i].start < silence_points[p][i].end

\* C1: in sequential runs sharing one base directory, the run number
\* allocated to each run is strictly greater than the run number allocated
\* to every earlier run.
C1_RunNumbersIncrease ==
    \A i \in 1..Len(allocs) : \A j \in 1..Len(allocs) :
        i < j => allocs[i].number < allocs[j].number

\* The entry is named NN_segments_*: digits, then "_segments_".
IsRunDirName(f) ==
    LET a == DigitRun(f, 1)
    IN  /\ a > 0
        /\ Len(f) >= a + Len(SegmentsInfix)
        /\ SubSeq(f, a + 1, a + Len(SegmentsInfix)) = SegmentsInfix

\* The leading integer NN of an entry named NN_segments_*.
RunNumberOf(f) == ToInt(SubSeq(f, 1, DigitRun(f, 1)))

\* C8: the run number chosen at the allocation step is 1 + the maximum
\* leading integer over the entries of the base directory named
\* NN_segments_*, and 1 when there is none; the new directory is named with
\* that number zero-padded to 2 digits.
C8_NextNumberIsMaxPlusOne ==
    \A p \in Procs :
        pc[p] \in {"split_mkdir", "split_fixed", "split_extract",
                   "split_return", "done"} =>
            LET observed == { RunNumberOf(f) :
                                f \in { g \in listing[p] : IsRunDirName(g) } }
            IN  /\ next_number[p] = SetMax(observed \cup {0}) + 1
                /\ pc[p] # "split_mkdir" =>
                     /\ IsRunDirName(output_dir[p])
                     /\ RunNumberOf(output_dir[p]) = next_number[p]
                     /\ DigitRun(output_dir[p], 1) >= 2

\* C7: the directory a run allocates did not exist before that run's
\* allocation step, and no two runs use the same directory.
C7_DirectoriesNeverShared ==
    /\ \A i \in 1..Len(allocs) : ~allocs[i].existed
    /\ \A i \in 1..Len(allocs) : \A j \in 1..Len(allocs) :
          i # j => allocs[i].dir # allocs[j].dir

\* The segment number in a name of the form segment_NNN.wav.
SegmentNumberOf(f) ==
    ToInt(SubSeq(f, Len(SegmentPrefix) + 1, Len(f) - Len(WavSuffix)))

\* C6: every batch split_audio returns is ordered by ascending segment
\* number and its files are numbered sequentially starting at 1.
C6_BatchNumberedFromOne ==
    \A p \in Procs :
        pc[p] = "done" =>
            \A i \in 1..Len(result[p]) : SegmentNumberOf(result[p][i]) = i

\* The call did not do its job: it exited non-zero, or it is the transcode
\* call and its output file is missing.
Failed(c) == c.exit # 0 \/ (c.cmd = "convert" /\ ~c.exists)

\* The error kind of an exception message of the pipeline.
ErrorKind(msg) ==
    CASE msg \in {"Audio conversion failed",
                  "WAV conversion failed: Output file not created"}
           -> "ConversionError"
      [] msg = "Silence detection failed" -> "DetectionError"
      [] msg = "Failed to split audio" -> "SplitError"
      [] OTHER -> "other"

\* The error kind that a failure of the call is to be reported as.
KindOfCall(c) ==
    CASE c.cmd = "convert" -> "ConversionError"
      [] c.cmd = "silencedetect" -> "DetectionError"
      [] OTHER -> "SplitError"

\* The stage that makes the call.
StageOfCall(c) ==
    CASE c.cmd = "convert" -> "normalize"
      [] c.cmd = "silencedetect" -> "detect"
      [] OTHER -> "split"

Last(s) == s[Len(s)]

\* The .wav files in the worker's output directory.
WavFilesOf(p) ==
    { f \in { sf[2] : sf \in { x \in segfiles : x[1] = output_dir[p] } } :
        EndsWith(f, WavSuffix) }

\* The files the run's own calls have left in its output directory.
Produced(p) ==
    { c.out : c \in { x \in Range(calls[p]) :
                        x.cmd = "extract" /\ x.exists } }
      \cup { SegmentName(n - 1) :
               n \in 1..(IF \E c \in Range(calls[p]) :
                               c.cmd = "segment" /\ c.exit = 0
                         THEN SegmentCount(input_duration[p]) ELSE 0) }

\* C3: a process_audio run that ends either returns a batch (segment files
\* of its directory, each once, none of those the run produced missing), no
\* call of it having failed, or raises exactly
\* one error: ConversionError when the transcode call exits non-zero or its
\* output file is missing, DetectionError when the silence-analysis call
\* exits non-zero, SplitError when a segmentation or extraction call exits
\* non-zero; no batch is returned after a call has failed.
C3_BatchOrTypedError ==
    \A p \in Procs :
        /\ \A k \in 1..Len(calls[p]) :
              Failed(calls[p][k]) => (k = Len(calls[p]) /\ pc[p] = "failed")
        /\ pc[p] = "done" =>
              /\ error[p] = NoError
              /\ Range(result[p]) \subseteq WavFilesOf(p)
              /\ Produced(p) \subseteq Range(result[p])
              /\ Len(result[p]) = Cardinality(Range(result[p]))
        /\ pc[p] = "failed" =>
              /\ result[p] = <<>>
              /\ Len(calls[p]) > 0
              /\ Failed(Last(calls[p]))
              /\ ErrorKind(error[p]) = KindOfCall(Last(calls[p]))

\* The transcode call exited zero without writing its file and the run ended
\* with the conversion error.
C3_Witness ==
    \E p \in Procs :
        /\ pc[p] = "failed"
        /\ Last(calls[p]).cmd = "convert"
        /\ Last(calls[p]).exit = 0
        /\ ErrorKind(error[p]) = "ConversionError"

IsPrefix(s, t) == Len(s) <= Len(t) /\ SubSeq(t, 1, Len(s)) = s

\* C4: the stages of a run are entered in the order normalize, detect,
\* parse, split, each at most once; when a stage fails no later stage is
\* entered and the failure reaches the caller.
C4_StagesInOrder ==
    \A p \in Procs :
        /\ IsPrefix(stages[p], StageOrder)
        /\ \A k \in 1..Len(calls[p]) :
              Failed(calls[p][k]) =>
                  /\ Last(stages[p]) = StageOfCall(calls[p][k])
                  /\ pc[p] = "failed"
                  /\ error[p] # NoError

\* The silence analysis failed: the run stopped after normalize and detect.
C4_Witness ==
    \E p \in Procs :
        /\ pc[p] = "failed"
        /\ stages[p] = <<"normalize", "detect">>
        /\ Last(calls[p]).cmd = "silencedetect"
        /\ Last(calls[p]).exit # 0

\* The calls of one command the run has made, in order.
CallsOf(p, cmd) == SelectSeq(calls[p], LAMBDA c : c.cmd = cmd)

\* split_audio has taken its branch on silence_points.
Branched(p) ==
    \/ pc[p] \in {"split_fixed", "split_extract", "split_return", "done"}
    \/ pc[p] = "failed" /\ Last(stages[p]) = "split"

\* The number of 10-second pieces that cover d seconds.
Pieces(d) == CHOOSE n \in 0..d : n * 10 >= d /\ (n - 1) * 10 < d

\* C5: split_audio takes the fixed-length fallback exactly when the interval
\* set it receives is empty: then it makes one segmentation call with a
\* 10-second window and no extraction, and the files written cover the
\* whole input in 10-second pieces (3 files for 30 seconds); for a non-empty
\* set it makes no segmentation call and one extraction per interval, in
\* interval order.
C5_FallbackIffEmpty ==
    \A p \in Procs :
        Branched(p) =>
            LET fixed == CallsOf(p, "segment")
                extractions == CallsOf(p, "extract")
                finished == pc[p] \in {"split_return", "done"}
            IN  IF silence_points[p] = <<>>
                THEN /\ extractions = <<>>
                     /\ Len(fixed) <= 1
                     /\ \A k \in 1..Len(fixed) : fixed[k].segment_time = 10
                     /\ finished =>
                          /\ Len(fixed) = 1
                          /\ \A n \in 1..Pieces(input_duration[p]) :
                                <<output_dir[p], SegmentName(n - 1)>>
                                    \in segfiles
                ELSE /\ fixed = <<>>
                     /\ Len(extractions) <= Len(silence_points[p])
                     /\ \A k \in 1..Len(extractions) :
                           /\ extractions[k].out = SegmentName(k)
                           /\ extractions[k].to
                                = silence_points[p][k].end + TimeScale
                     /\ finished =>
                          Len(extractions) = Len(silence_points[p])

\* A 30-second recording without silence points has been cut by one
\* segmentation call into 3 files.
C5_Witness ==
    \E p \in Procs :
        /\ pc[p] = "done"
        /\ silence_points[p] = <<>>
        /\ input_duration[p] = 30
        /\ Len(CallsOf(p, "segment")) = 1
        /\ Len(result[p]) = 3

\* C10: in the silence-driven case a non-zero exit of the extraction for
\* interval k makes split_audio raise the split error at once: no extraction
\* follows and no batch is returned; an extraction that exits zero without
\* creating its file raises nothing and the loop goes on to the next
\* interval.
C10_ExtractionFailFast ==
    \A p \in Procs :
        \A k \in 1..Len(calls[p]) :
            LET c == calls[p][k]
                interval == SegmentNumberOf(c.out)
            IN  c.cmd = "extract" =>
                  /\ c.exit # 0 =>
                        /\ k = Len(calls[p])
                        /\ pc[p] = "failed"
                        /\ ErrorKind(error[p]) = "SplitError"
                        /\ result[p] = <<>>
                  /\ (c.exit = 0 /\ ~c.exists) =>
                        /\ pc[p] # "failed" \/ k < Len(calls[p])
                        /\ (k = Len(calls[p])
                              /\ interval < Len(silence_points[p])) =>
                              (pc[p] = "split_extract" /\ idx[p] = interval)

\* Of two intervals the first extraction exited zero without a file and the
\* loop went on; the second exited non-zero and the run ended there with the
\* split error.
C10_Witness ==
    \E p \in Procs :
        /\ pc[p] = "failed"
        /\ Len(silence_points[p]) = 2
        /\ ErrorKind(error[p]) = "SplitError"
        /\ Len(CallsOf(p, "extract")) = 2
        /\ CallsOf(p, "extract")[1].exit = 0
        /\ ~CallsOf(p, "extract")[1].exists
        /\ CallsOf(p, "extract")[2].exit # 0

\* The worker's split_audio has listed the base directory.
Listed(p) ==
    \/ pc[p] \in {"split_mkdir", "split_fixed", "split_extract",
                  "split_return", "done"}
    \/ pc[p] = "failed" /\ Last(stages[p]) = "split"

\* Worker q listed the base directory before worker p's run directory was
\* in it.
ListedBefore(q, p) ==
    output_dir[p] = NoName \/ output_dir[p] \notin listing[q]

\* The list-siblings and create-directory steps of the two workers'
\* split_audio invocations interleave: each listed before the other created.
Interleaved(p, q) ==
    /\ p # q
    /\ Listed(p)
    /\ Listed(q)
    /\ ListedBefore(p, q)
    /\ ListedBefore(q, p)

\* C11: when the list-siblings and create-directory steps of two concurrent
\* split_audio invocations on the same base directory interleave, both
\* invocations compute the same next run number; such an interleaving
\* exists, the listing and the creation not being one atomic step.
C11_InterleavedSameNumber ==
    \A p \in Procs : \A q \in Procs :
        Interleaved(p, q) => next_number[p] = next_number[q]

\* Two workers have each listed before the other created, and each has
\* then made its own directory, both under the same run number.
C11_Witness ==
    \E p \in Procs : \E q \in Procs :
        /\ Interleaved(p, q)
        /\ output_dir[p] # NoName
        /\ output_dir[q] # NoName
        /\ output_dir[p] # output_dir[q]
        /\ next_number[p] = next_number[q]
        /\ RunNumberOf(output_dir[p]) = RunNumberOf(output_dir[q])

\* C12: in the silence-driven case the extraction issued for interval i
\* (1-indexed) writes segment number i and uses the window
\* [max(0, start_i - 1), end_i + 1]: the window start is never negative, is
\* start_i - 1 whenever start_i >= 1, and the window end is end_i + 1.
C12_PaddedWindow ==
    \A p \in Procs :
        LET extractions == CallsOf(p, "extract")
        IN  \A i \in 1..Len(extractions) :
                LET interval == silence_points[p][i]
                    c == extractions[i]
                IN  /\ SegmentNumberOf(c.out) = i
                    /\ c.ss >= 0
                    /\ interval.start >= TimeScale =>
                          c.ss = interval.start - TimeScale
                    /\ interval.start < TimeScale => c.ss = 0
                    /\ c.to = interval.end + TimeScale

\* The interval (0.3, 2.0) has been extracted with the window [0.0, 3.0],
\* and the interval after it, (3.5, 5.0), with [2.5, 6.0] into segment 2.
C12_Witness ==
    \E p \in Procs :
        /\ silence_points[p] = <<[start |-> 3, end |-> 20],
                                 [start |-> 35, end |-> 50]>>
        /\ Len(CallsOf(p, "extract")) = 2
        /\ CallsOf(p, "extract")[1].ss = 0
        /\ CallsOf(p, "extract")[1].to = 30
        /\ CallsOf(p, "extract")[2].ss = 25
        /\ CallsOf(p, "extract")[2].to = 60
        /\ CallsOf(p, "extract")[2].out = SegmentName(2)

====
